---- MODULE Spec2Model ----
(***************************************************************************)
(* The SES SMTP credentials custom-resource handler (ses-handler) and the  *)
(* collaborators it calls: the SSM parameter store and the STS identity    *)
(* resolver.                                                               *)
(*                                                                         *)
(* Strings and byte buffers are sequences of chunks.  A chunk is a TLA+    *)
(* string; the character "/" is always a chunk of its own and no other     *)
(* chunk contains it, so the first character of a string is "/" exactly    *)
(* when its first chunk is "/".  String concatenation is \o.               *)
(* HMAC-SHA256 and base64 are uninterpreted: they build the term that      *)
(* names their result, as a chunk sequence.                                *)
(***************************************************************************)
EXTENDS Integers, Sequences, FiniteSets, TLC

VARIABLES
    region,     \* process.env.AWS_REGION ?? '' (module scope, read once)
    prefix,     \* process.env.SES_PARAMETER_PREFIX
    keyArn,     \* process.env.SES_KEY_ARN
    account,    \* the Account that sts.getCallerIdentity resolves
    strict,     \* the store reports a delete of an absent parameter as an error
    store,      \* the parameter store: parameter name -> entry
    inv,        \* the handler invocation in progress, or the last one finished
    prev,       \* the invocation that finished before inv was delivered
    returned,   \* parameter kind -> the identifiers returned for it so far
    faults,     \* transient collaborator failures and abandoned invocations so far
    now,        \* wall-clock time (the handler never reads it)
    derived,    \* secret key -> the passwords derived from it, with their times
    arnLog,     \* the identifiers computed: <<prefix, parameter kind, identifier>>
    store0,     \* the store before two concurrent invocations were delivered
    invs        \* parameter kind -> the concurrent invocation for that kind

vars == <<region, prefix, keyArn, account, strict, store, inv, prev, returned, faults,
          now, derived, arnLog, store0, invs>>
env == <<region, prefix, keyArn, account, strict>>
\* the state of the other specifications below, which the lifecycle leaves alone
aside == <<now, derived, arnLog, store0, invs>>

----------------------------------------------------------------------------
(* Bounds of the model *)

MaxFaults == 2
MaxClock == 2

----------------------------------------------------------------------------
(* Constants of the handler *)

SMTP_REGIONS ==
    { "us-east-2", "us-east-1", "us-west-2", "ap-south-1", "ap-northeast-2",
      "ap-southeast-1", "ap-southeast-2", "ap-northeast-1", "ca-central-1",
      "eu-central-1", "eu-west-1", "eu-west-2", "sa-east-1", "us-gov-west-1" }

DATE == <<"11111111">>
SERVICE == <<"ses">>
MESSAGE == <<"SendRawEmail">>
TERMINAL == <<"aws4_request">>
VERSION == <<"0x04">>

----------------------------------------------------------------------------
(* Inputs the environment and the orchestrator draw from *)

Regions == { "us-east-1", "af-south-1" }
Prefixes == { <<"/", "gts">>, <<"gts">> }
KeyArns == { "", "arn:aws:kms:key" }
Accounts == { "123456789012" }
Kinds == { "username", "password" }
Keys == { <<"k1">>, <<"k2">> }
LifecycleTypes == { "Create", "Update", "Delete" }
RequestTypes == LifecycleTypes \cup { "Reboot" }

----------------------------------------------------------------------------
(* Pure functions of the handler *)

\* sign: createHmac('sha256', key).update(msg).digest(), uninterpreted
sign(key, msg) == <<"hmac(">> \o key \o <<",">> \o msg \o <<")">>

\* Buffer.toString('base64'), uninterpreted
base64(buf) == <<"b64(">> \o buf \o <<")">>

Thrown(e) == [ok |-> FALSE, error |-> e, value |-> <<>>]
Returned(v) == [ok |-> TRUE, error |-> "", value |-> v]

UnsupportedRegion == "The region doesn't have an SMTP endpoint."
UnexpectedEvent == "unexpected event type"

\* calculateKey without the allow-list check
calculateKeyUnchecked(secretAccessKey) ==
    LET s1 == sign(<<"AWS4">> \o secretAccessKey, DATE)
        s2 == sign(s1, <<region>>)
        s3 == sign(s2, SERVICE)
        s4 == sign(s3, TERMINAL)
        s5 == sign(s4, MESSAGE)
    IN  Returned(base64(VERSION \o s5))

\* calculateKey signing the current date instead of the fixed DATE
calculateKeyDated(secretAccessKey) ==
    IF region \notin SMTP_REGIONS
    THEN Thrown(UnsupportedRegion)
    ELSE LET s1 == sign(<<"AWS4">> \o secretAccessKey, <<ToString(now)>>)
             s2 == sign(s1, <<region>>)
             s3 == sign(s2, SERVICE)
             s4 == sign(s3, TERMINAL)
             s5 == sign(s4, MESSAGE)
         IN  Returned(base64(VERSION \o s5))

\* calculateKey signing the terminal before the service
calculateKeySwapped(secretAccessKey) ==
    IF region \notin SMTP_REGIONS
    THEN Thrown(UnsupportedRegion)
    ELSE LET s1 == sign(<<"AWS4">> \o secretAccessKey, DATE)
             s2 == sign(s1, <<region>>)
             s3 == sign(s2, TERMINAL)
             s4 == sign(s3, SERVICE)
             s5 == sign(s4, MESSAGE)
         IN  Returned(base64(VERSION \o s5))

calculateKey(secretAccessKey) ==
    IF region \notin SMTP_REGIONS
    THEN Thrown(UnsupportedRegion)
    ELSE LET s1 == sign(<<"AWS4">> \o secretAccessKey, DATE)
             s2 == sign(s1, <<region>>)
             s3 == sign(s2, SERVICE)
             s4 == sign(s3, TERMINAL)
             s5 == sign(s4, MESSAGE)
         IN  Returned(base64(VERSION \o s5))

\* the prefix joined to one fixed name, whatever the parameter kind
parameterNameShared(parameter) == prefix \o <<"/">> \o <<"credentials">>

\* [process.env.SES_PARAMETER_PREFIX, parameter].join('/')
parameterName(parameter) == prefix \o <<"/">> \o <<parameter>>

\* computeArn naming the parameter only while the store holds it
computeArnFromStore(parameter, Account) ==
    LET name == parameterName(parameter)
    IN  <<"arn:aws:ssm:", region, ":", Account, ":parameter">>
          \o (IF Head(name) = "/" THEN <<>> ELSE <<"/">>)
          \o (IF store[name].present THEN name ELSE <<>>)

\* computeArn putting the separator in whatever the name starts with
computeArnAlwaysSlash(parameter, Account) ==
    <<"arn:aws:ssm:", region, ":", Account, ":parameter">>
      \o <<"/">> \o parameterName(parameter)

\* the identifier computeArn builds once the account is resolved
computeArn(parameter, Account) ==
    LET name == parameterName(parameter)
    IN  <<"arn:aws:ssm:", region, ":", Account, ":parameter">>
          \o (IF Head(name) = "/" THEN <<>> ELSE <<"/">>)
          \o parameterName(parameter)

Names == { parameterName(k) : k \in Kinds }

----------------------------------------------------------------------------
(* The collaborators: requests and the store's semantics *)

NoKeyId == <<>>

Absent == [present |-> FALSE, Value |-> <<>>, Type |-> "", KeyId |-> NoKeyId, Tier |-> ""]

\* putParameter leaving Overwrite at its default
putRequestNoOverwrite(value, parameter) ==
    [ op |-> "putParameter",
      Type |-> "SecureString",
      Name |-> parameterName(parameter),
      Value |-> value,
      KeyId |-> IF keyArn # "" THEN <<keyArn>> ELSE NoKeyId,
      Description |-> <<"SMTP ", parameter, " for email communications">>,
      Overwrite |-> FALSE,
      Tier |-> "Standard" ]

\* the request ssm.putParameter is called with
putRequest(value, parameter) ==
    [ op |-> "putParameter",
      Type |-> "SecureString",
      Name |-> parameterName(parameter),
      Value |-> value,
      KeyId |-> IF keyArn # "" THEN <<keyArn>> ELSE NoKeyId,
      Description |-> <<"SMTP ", parameter, " for email communications">>,
      Overwrite |-> TRUE,
      Tier |-> "Standard" ]

\* deleteParameter naming the password parameter whatever the kind
deleteRequestPassword(parameter) ==
    [ op |-> "deleteParameter",
      Type |-> "",
      Name |-> parameterName("password"),
      Value |-> <<>>,
      KeyId |-> NoKeyId,
      Description |-> <<>>,
      Overwrite |-> FALSE,
      Tier |-> "" ]

\* the request ssm.deleteParameter is called with
deleteRequest(parameter) ==
    [ op |-> "deleteParameter",
      Type |-> "",
      Name |-> parameterName(parameter),
      Value |-> <<>>,
      KeyId |-> NoKeyId,
      Description |-> <<>>,
      Overwrite |-> FALSE,
      Tier |-> "" ]

\* sts.getCallerIdentity()
identityRequest ==
    [ op |-> "getCallerIdentity",
      Type |-> "",
      Name |-> <<>>,
      Value |-> <<>>,
      KeyId |-> NoKeyId,
      Description |-> <<>>,
      Overwrite |-> FALSE,
      Tier |-> "" ]

ParameterAlreadyExists == "ParameterAlreadyExists"
ParameterNotFound == "ParameterNotFound"
StoreFault == "StoreFault"
IdentityFault == "IdentityFault"

\* the error the store answers a request with, "" standing for none: a put
\* without Overwrite of a parameter that exists is refused; a delete of a
\* parameter that does not exist is reported by a strict store (SSM answers
\* ParameterNotFound) and tolerated by any other
storeErrorIn(st, req) ==
    IF req.op = "putParameter"
    THEN IF st[req.Name].present /\ ~req.Overwrite
         THEN ParameterAlreadyExists ELSE ""
    ELSE IF ~st[req.Name].present /\ strict
         THEN ParameterNotFound ELSE ""

storeError(req) == storeErrorIn(store, req)

\* a store after it applied a request
storeApplyIn(st, req) ==
    IF req.op = "putParameter"
    THEN [st EXCEPT ![req.Name] =
            [ present |-> TRUE, Value |-> req.Value, Type |-> req.Type,
              KeyId |-> req.KeyId, Tier |-> req.Tier ]]
    ELSE [st EXCEPT ![req.Name] = Absent]

\* the store after it applied a request
storeApply(req) == storeApplyIn(store, req)

----------------------------------------------------------------------------
(* The handler invocation *)

NoResult == [status |-> "none", error |-> "", PhysicalResourceId |-> <<>>]
Failure(e) == [status |-> "error", error |-> e, PhysicalResourceId |-> <<>>]
Success(arn) == [status |-> "ok", error |-> "", PhysicalResourceId |-> arn]
Abandoned == [status |-> "abandoned", error |-> "", PhysicalResourceId |-> <<>>]

NoInv ==
    [ pc |-> "none", RequestType |-> "", ParameterType |-> "", Key |-> <<>>,
      calls |-> <<>>, result |-> NoResult ]

NoPrev ==
    [ done |-> FALSE, RequestType |-> "", ParameterType |-> "", Key |-> <<>>,
      result |-> NoResult, entry |-> Absent ]

\* what is remembered of inv when the next event is delivered
Summary ==
    IF inv.pc = "done"
    THEN [ done |-> TRUE, RequestType |-> inv.RequestType,
           ParameterType |-> inv.ParameterType, Key |-> inv.Key,
           result |-> inv.result, entry |-> store[parameterName(inv.ParameterType)] ]
    ELSE NoPrev

\* the switch without its default branch, unknown events falling into Delete
routeNoDefault(RequestType) ==
    IF RequestType \in { "Create", "Update" } THEN "put" ELSE "delete"

\* the switch without its case for Update
routeNoUpdate(RequestType) ==
    CASE RequestType = "Create" -> "put"
      [] RequestType = "Delete" -> "delete"
      [] OTHER -> "throw"

\* the branch of the switch on event.RequestType
route(RequestType) ==
    CASE RequestType \in { "Create", "Update" } -> "put"
      [] RequestType = "Delete" -> "delete"
      [] OTHER -> "throw"

\* the allow-list checked for every parameter kind
valueToStoreChecked(parameterType, key) ==
    IF region \notin SMTP_REGIONS THEN Thrown(UnsupportedRegion)
    ELSE IF parameterType = "password" THEN calculateKey(key) ELSE Returned(key)

\* the raw key stored for every parameter kind
valueToStoreRaw(parameterType, key) == Returned(key)

\* parameterType === 'password' ? calculateKey(key) : key
valueToStore(parameterType, key) ==
    IF parameterType = "password" THEN calculateKey(key) ELSE Returned(key)

\* the identifier computed first: the resolver called before any store call
startedArnFirst(RequestType, parameterType, key) ==
    LET base == [ NoInv EXCEPT !.RequestType = RequestType,
                               !.ParameterType = parameterType, !.Key = key ]
    IN  IF route(RequestType) = "throw"
        THEN [ base EXCEPT !.pc = "done", !.result = Failure(UnexpectedEvent) ]
        ELSE [ base EXCEPT !.pc = "sts", !.calls = <<identityRequest>> ]

\* the invocation after the handler's synchronous part, up to its first await
started(RequestType, parameterType, key) ==
    LET base == [ NoInv EXCEPT !.RequestType = RequestType,
                               !.ParameterType = parameterType, !.Key = key ]
        value == valueToStore(parameterType, key)
    IN  CASE route(RequestType) = "put" ->
               IF value.ok
               THEN [ base EXCEPT !.pc = "store",
                                  !.calls = <<putRequest(value.value, parameterType)>> ]
               ELSE [ base EXCEPT !.pc = "done", !.result = Failure(value.error) ]
          [] route(RequestType) = "delete" ->
               [ base EXCEPT !.pc = "store",
                             !.calls = <<deleteRequest(parameterType)>> ]
          [] OTHER ->
               [ base EXCEPT !.pc = "done", !.result = Failure(UnexpectedEvent) ]

\* the store call resolved: .then(() => computeArn(parameter)) calls the resolver
onStoreResolved ==
    [ inv EXCEPT !.pc = "sts", !.calls = Append(@, identityRequest) ]

\* the store call's rejection caught and ignored: on to computeArn
onStoreRejectedSwallowed(e) ==
    [ inv EXCEPT !.pc = "sts", !.calls = Append(@, identityRequest) ]

\* the store call's rejection answered by sending the request again
onStoreRejectedRetried(e) ==
    [ inv EXCEPT !.calls = Append(@, @[1]) ]

\* the store call rejected: nothing catches it, the handler rejects with it
onStoreRejected(e) ==
    [ inv EXCEPT !.pc = "done", !.result = Failure(e) ]

\* getCallerIdentity resolved: the handler returns { PhysicalResourceId: arn }
onIdentityResolved ==
    [ inv EXCEPT !.pc = "done",
                 !.result = Success(computeArn(inv.ParameterType, account)) ]

\* getCallerIdentity rejected: the handler rejects with it
onIdentityRejected(e) ==
    [ inv EXCEPT !.pc = "done", !.result = Failure(e) ]

----------------------------------------------------------------------------
(* Actions *)

\* nothing delivered, derived or computed yet
Fresh ==
    /\ inv = NoInv
    /\ prev = NoPrev
    /\ returned = [k \in Kinds |-> {}]
    /\ faults = 0
    /\ now = 0
    /\ derived = [key \in Keys |-> {}]
    /\ arnLog = {}
    /\ invs = [k \in Kinds |-> NoInv]

Init ==
    /\ region \in Regions
    /\ prefix \in Prefixes
    /\ keyArn \in KeyArns
    /\ account \in Accounts
    /\ strict \in BOOLEAN
    /\ store = [n \in Names |-> Absent]
    /\ store0 = store
    /\ Fresh

\* the orchestrator delivers an event; the handler runs up to its first await
handler(RequestType, parameterType, key) ==
    /\ inv.pc \in { "none", "done" }
    /\ prev' = Summary
    /\ inv' = started(RequestType, parameterType, key)
    /\ UNCHANGED <<env, store, returned>>

\* the store answers the request in flight
ssmRespond ==
    /\ inv.pc = "store"
    /\ LET req == inv.calls[Len(inv.calls)]
           e == storeError(req)
       IN  IF e = ""
           THEN /\ store' = storeApply(req)
                /\ inv' = onStoreResolved
           ELSE /\ store' = store
                /\ inv' = onStoreRejected(e)
    /\ UNCHANGED <<env, prev, returned>>

\* the store fails the request in flight without applying it
ssmFault ==
    /\ inv.pc = "store"
    /\ inv' = onStoreRejected(StoreFault)
    /\ UNCHANGED <<env, store, prev, returned>>

\* the identity resolver answers
stsRespond ==
    /\ inv.pc = "sts"
    /\ inv' = onIdentityResolved
    /\ returned' = [returned EXCEPT ![inv.ParameterType] =
                        @ \cup { inv'.result.PhysicalResourceId }]
    /\ UNCHANGED <<env, store, prev>>

\* the identity resolver fails
stsFault ==
    /\ inv.pc = "sts"
    /\ inv' = onIdentityRejected(IdentityFault)
    /\ UNCHANGED <<env, store, prev, returned>>

\* the orchestrator times out an invocation in flight: it never responds
Abandon ==
    /\ inv.pc \in { "store", "sts" }
    /\ inv' = [ inv EXCEPT !.pc = "done", !.result = Abandoned ]
    /\ UNCHANGED <<env, store, prev, returned>>

Deliver ==
    /\ \E t \in RequestTypes, k \in Kinds, key \in Keys : handler(t, k, key)
    /\ UNCHANGED <<faults, aside>>

Respond == (ssmRespond \/ stsRespond) /\ UNCHANGED <<faults, aside>>

Fail == (ssmFault \/ stsFault \/ Abandon) /\ UNCHANGED <<faults, aside>>

Next == Deliver \/ Respond \/ Fail

Spec == Init /\ [][Next]_vars

----------------------------------------------------------------------------
(* At-least-once delivery: the orchestrator re-delivers an event until an     *)
(* invocation of it succeeds; the collaborators fail transiently, and the     *)
(* orchestrator times out, at most MaxFaults times.                           *)

\* a first event, or the next one once the last has succeeded
Issue ==
    /\ inv.pc = "none" \/ (inv.pc = "done" /\ inv.result.status = "ok")
    /\ \E t \in LifecycleTypes, k \in Kinds, key \in Keys : handler(t, k, key)
    /\ UNCHANGED <<faults, aside>>

\* the event that failed or was abandoned is delivered again
Redeliver ==
    /\ inv.pc = "done" /\ inv.result.status # "ok"
    /\ handler(inv.RequestType, inv.ParameterType, inv.Key)
    /\ UNCHANGED <<faults, aside>>

Transient ==
    /\ faults < MaxFaults
    /\ ssmFault \/ stsFault \/ Abandon
    /\ faults' = faults + 1
    /\ UNCHANGED aside

RetryNext == Issue \/ Redeliver \/ Respond \/ Transient

RetrySpec ==
    Init /\ [][RetryNext]_vars /\ WF_vars(Redeliver) /\ WF_vars(Respond)

----------------------------------------------------------------------------
(* The Signature Engine alone: calculateKey is called for any secret key, at *)
(* any time, in a process of any region.                                    *)

KeyRegions == SMTP_REGIONS \cup { "af-south-1", "" }

KeyInit ==
    /\ region \in KeyRegions
    /\ prefix = <<"/", "gts">>
    /\ keyArn = ""
    /\ account \in Accounts
    /\ strict = TRUE
    /\ store = [n \in Names |-> Absent]
    /\ store0 = store
    /\ Fresh

\* time passes
Tick ==
    /\ now < MaxClock
    /\ now' = now + 1
    /\ UNCHANGED <<env, store, inv, prev, returned, faults, derived, arnLog, store0, invs>>

\* calculateKey(secretAccessKey) is called and its outcome noted
Derive(secretAccessKey) ==
    /\ derived' = [derived EXCEPT ![secretAccessKey] =
                     @ \cup { [at |-> now, out |-> calculateKey(secretAccessKey)] }]
    /\ UNCHANGED <<env, store, inv, prev, returned, faults, now, arnLog, store0, invs>>

DeriveAny == \E key \in Keys : Derive(key)

KeyNext == Tick \/ DeriveAny

KeySpec == KeyInit /\ [][KeyNext]_vars

----------------------------------------------------------------------------
(* Two invocations at once: the username and the password custom resources  *)
(* are served by the same function, and the orchestrator delivers one event  *)
(* to each without waiting for the other.  The collaborators answer.         *)

\* what the store may hold of a parameter before the events
Before ==
    { Absent,
      [ present |-> TRUE, Value |-> <<"k0">>, Type |-> "SecureString",
        KeyId |-> NoKeyId, Tier |-> "Standard" ] }

ConcInit ==
    /\ region \in Regions
    /\ prefix \in Prefixes
    /\ keyArn \in KeyArns
    /\ account \in Accounts
    /\ strict \in BOOLEAN
    /\ store \in [Names -> Before]
    /\ store0 = store
    /\ Fresh

\* the event for kind k is delivered: handler runs up to its first await
handlerOf(k) ==
    /\ invs[k].pc = "none"
    /\ \E t \in LifecycleTypes, key \in Keys :
         invs' = [invs EXCEPT ![k] = started(t, k, key)]
    /\ UNCHANGED <<env, store, inv, prev, returned, faults, now, derived, arnLog, store0>>

\* the store answers the request of the invocation for kind k
ssmRespondOf(k) ==
    /\ invs[k].pc = "store"
    /\ LET req == invs[k].calls[1]
           e == storeErrorIn(store, req)
       IN  IF e = ""
           THEN /\ store' = storeApplyIn(store, req)
                /\ invs' = [invs EXCEPT ![k].pc = "sts",
                                        ![k].calls = Append(@, identityRequest)]
           ELSE /\ store' = store
                /\ invs' = [invs EXCEPT ![k].pc = "done", ![k].result = Failure(e)]
    /\ UNCHANGED <<env, inv, prev, returned, faults, now, derived, arnLog, store0>>

\* the identity resolver answers the invocation for kind k
stsRespondOf(k) ==
    /\ invs[k].pc = "sts"
    /\ invs' = [invs EXCEPT ![k].pc = "done",
                            ![k].result = Success(computeArn(k, account))]
    /\ UNCHANGED <<env, store, inv, prev, returned, faults, now, derived, arnLog, store0>>

DeliverOne == \E k \in Kinds : handlerOf(k)
StoreOne == \E k \in Kinds : ssmRespondOf(k)
IdentityOne == \E k \in Kinds : stsRespondOf(k)

ConcNext == DeliverOne \/ StoreOne \/ IdentityOne

ConcSpec == ConcInit /\ [][ConcNext]_vars

----------------------------------------------------------------------------
(* The identifier under every shape of prefix: the stack is deployed with    *)
(* some parameterPrefix, may be redeployed with another, and computeArn is   *)
(* evaluated for either parameter kind.                                      *)

ArnPrefixes ==
    { <<>>, <<"/">>, <<"gts">>, <<"/", "gts">>,
      <<"gts", "/", "ses">>, <<"/", "gts", "/", "ses">> }

ArnInit ==
    /\ region \in Regions
    /\ prefix \in ArnPrefixes
    /\ keyArn = ""
    /\ account \in Accounts
    /\ strict = TRUE
    /\ store = [n \in Names |-> Absent]
    /\ store0 = store
    /\ Fresh

\* the function's environment is set from another parameterPrefix
Redeploy ==
    /\ \E p \in ArnPrefixes : p # prefix /\ prefix' = p
    /\ UNCHANGED <<region, keyArn, account, strict, store, inv, prev, returned,
                   faults, now, derived, arnLog, store0, invs>>

\* computeArn evaluated for one parameter kind, the account resolved
Format ==
    /\ \E k \in Kinds :
         arnLog' = arnLog \cup
                     {[ prefix |-> prefix, parameter |-> k,
                        name |-> parameterName(k), arn |-> computeArn(k, account) ]}
    /\ UNCHANGED <<env, store, inv, prev, returned, faults, now, derived, store0, invs>>

ArnNext == Redeploy \/ Format

ArnSpec == ArnInit /\ [][ArnNext]_vars

----------------------------------------------------------------------------
(* Claims *)

StoreOps == { "putParameter", "deleteParameter" }

\* the invocation finished and failed through no transient fault or timeout
NoFault(r) ==
    /\ r.status # "abandoned"
    /\ r.error \notin { StoreFault, IdentityFault }

\* the event of inv is a repeat of the event of prev
SameParameter == prev.done /\ prev.ParameterType = inv.ParameterType

\* the entry a successful put leaves in the store
EntryOf(value) ==
    [ present |-> TRUE, Value |-> value, Type |-> "SecureString",
      KeyId |-> IF keyArn = "" THEN <<>> ELSE <<keyArn>>, Tier |-> "Standard" ]

\* C1: a Delete that follows a successful Delete of the same parameter, and
\* meets no transient fault, succeeds and returns the identifier the first
\* Delete returned, whether or not the store reports the absent parameter.
C1_DeleteAfterDelete ==
    ( /\ inv.pc = "done" /\ inv.RequestType = "Delete"
      /\ SameParameter /\ prev.RequestType = "Delete"
      /\ prev.result.status = "ok"
      /\ NoFault(inv.result) )
    => /\ inv.result.status = "ok"
       /\ inv.result.PhysicalResourceId = prev.result.PhysicalResourceId

C3_Case ==
    /\ region \notin SMTP_REGIONS
    /\ inv.ParameterType = "password"
    /\ inv.RequestType \in { "Create", "Update" }

C3_Failed ==
    C3_Case => /\ inv.pc = "done"
               /\ inv.result = Failure(UnsupportedRegion)
               /\ \A i \in 1..Len(inv.calls) : inv.calls[i].op \notin StoreOps

\* C3: in a region outside the allow-list a Create or Update of the password
\* parameter ends with the configuration error, has made no put or delete call,
\* and no step of it, its delivery included, changes the store.
C3_PasswordFailsBeforeStore ==
    /\ []C3_Failed
    /\ [][C3_Case' => store' = store]_vars

C3_Witness ==
    /\ C3_Case /\ inv.pc = "done" /\ inv.result = Failure(UnsupportedRegion)
    /\ prev.done /\ prev.ParameterType = "username" /\ prev.result.status = "ok"
    /\ store[parameterName("username")].present

C4_Case ==
    /\ region \in SMTP_REGIONS
    /\ inv.pc = "done" /\ inv.RequestType = "Create"
    /\ SameParameter /\ prev.RequestType = "Create" /\ prev.Key = inv.Key
    /\ prev.result.status = "ok"
    /\ NoFault(inv.result)

\* C4: a Create that follows a successful Create with the same properties, and
\* meets no transient fault, succeeds too; the store then holds at the
\* parameter's key what it held after the first, and both return the same
\* identifier.
C4_CreateIdempotent ==
    C4_Case => /\ inv.result.status = "ok"
               /\ store[parameterName(inv.ParameterType)] = prev.entry
               /\ inv.result.PhysicalResourceId = prev.result.PhysicalResourceId

C4_Witness ==
    /\ C4_Case /\ inv.ParameterType = "password" /\ inv.result.status = "ok"
    /\ store[parameterName("password")].present

\* C5: an invocation that returned an identifier called the store and then the
\* identity resolver, the store holds the effect of its put or delete, and the
\* identifier is there; an invocation that failed returned none.
C5_SuccessOnlyWhenApplied ==
    /\ inv.result.status = "ok" =>
         /\ Len(inv.calls) = 2
         /\ inv.calls[1].op \in StoreOps
         /\ inv.calls[2].op = "getCallerIdentity"
         /\ store[inv.calls[1].Name] =
              IF inv.calls[1].op = "putParameter"
              THEN EntryOf(inv.calls[1].Value) ELSE Absent
         /\ inv.result.PhysicalResourceId # <<>>
    /\ inv.result.status # "ok" => inv.result.PhysicalResourceId = <<>>
    /\ (inv.pc = "done" /\ inv.result.status = "error") => inv.result.error # ""

C5_Witness ==
    /\ inv.pc = "done" /\ inv.result.status = "ok" /\ inv.RequestType = "Update"
    /\ SameParameter /\ prev.result = Failure(StoreFault)
    /\ prev.Key # inv.Key

\* C6: an event whose kind is not Create, Update or Delete has failed with the
\* unexpected-event error once delivered, and has called neither the store nor
\* the identity resolver, in any region and for any properties.
C6_UnrecognizedEvent ==
    (inv.pc # "none" /\ inv.RequestType \notin LifecycleTypes)
    => /\ inv.pc = "done"
       /\ inv.result = Failure(UnexpectedEvent)
       /\ inv.calls = <<>>

C6_Witness ==
    /\ inv.pc = "done" /\ inv.RequestType \notin LifecycleTypes
    /\ inv.ParameterType = "password" /\ region \notin SMTP_REGIONS
    /\ store[parameterName("username")].present

\* C7: when a Delete removed the parameter and failed at the identity
\* resolver, the retried Delete that meets no transient fault succeeds and
\* returns the identifier, the store still not holding the parameter.
C7_DeleteRetryAfterIdentityFailure ==
    ( /\ inv.pc = "done" /\ inv.RequestType = "Delete"
      /\ SameParameter /\ prev.RequestType = "Delete"
      /\ prev.result = Failure(IdentityFault)
      /\ NoFault(inv.result) )
    => /\ inv.result.status = "ok"
       /\ inv.result.PhysicalResourceId # <<>>
       /\ ~store[parameterName(inv.ParameterType)].present

\* a lifecycle event is under delivery that the configuration does not rule out
C8_Pending ==
    /\ inv.pc # "none"
    /\ inv.RequestType \in LifecycleTypes
    /\ ~( /\ region \notin SMTP_REGIONS /\ inv.ParameterType = "password"
          /\ inv.RequestType # "Delete" )

\* an invocation of it succeeded and the store is as the event wants it
C8_Converged ==
    /\ inv.pc = "done" /\ inv.result.status = "ok"
    /\ store[parameterName(inv.ParameterType)] =
         IF inv.RequestType = "Delete" THEN Absent
         ELSE EntryOf(valueToStore(inv.ParameterType, inv.Key).value)

\* C8: an event re-delivered until an invocation of it succeeds, the
\* collaborators' transient failures having an end, eventually succeeds, with
\* the desired value at the parameter's key (Create, Update) or the key absent
\* (Delete).
C8_Convergence == C8_Pending ~> C8_Converged

\* C9: all identifiers returned for a parameter kind (prefix, region and
\* account being those of the deployment) are one and the same, whatever the
\* events, their order and the store's contents when they returned.
C9_IdentifierStable ==
    \A k \in Kinds : Cardinality(returned[k]) <= 1

C9_Witness ==
    /\ inv.pc = "done" /\ inv.RequestType = "Delete" /\ inv.result.status = "ok"
    /\ SameParameter /\ prev.RequestType = "Update" /\ prev.result.status = "ok"
    /\ prev.entry.present /\ ~store[parameterName(inv.ParameterType)].present
    /\ returned[inv.ParameterType] # {}

C10_Case ==
    /\ region \in SMTP_REGIONS
    /\ inv.pc = "done" /\ inv.RequestType \in { "Create", "Update" }
    /\ inv.result.status = "ok"

\* C10: after a successful Create or Update in a supported region the store
\* holds at prefix/kind the derived password of (Key, region) for password and
\* the Key itself for username, as a SecureString of the Standard tier with the
\* configured encryption key if there is one; every put asks for Overwrite.
C10_StoredValue ==
    /\ C10_Case =>
         store[prefix \o <<"/", inv.ParameterType>>] =
           EntryOf(IF inv.ParameterType = "password"
                   THEN calculateKey(inv.Key).value ELSE inv.Key)
    /\ \A i \in 1..Len(inv.calls) :
         inv.calls[i].op = "putParameter" =>
           /\ inv.calls[i].Overwrite
           /\ inv.calls[i].Type = "SecureString"
           /\ inv.calls[i].Tier = "Standard"
           /\ inv.calls[i].Name = prefix \o <<"/", inv.ParameterType>>
           /\ (inv.calls[i].KeyId # <<>>) <=> (keyArn # "")
           /\ keyArn # "" => inv.calls[i].KeyId = <<keyArn>>

C10_Witness ==
    /\ C10_Case /\ inv.RequestType = "Update" /\ inv.ParameterType = "password"
    /\ keyArn # ""
    /\ SameParameter /\ prev.entry.present /\ prev.entry # store[parameterName("password")]

\* the store holds the effect of the store call the invocation made
C11_Applied ==
    store[inv.calls[1].Name] =
      IF inv.calls[1].op = "putParameter"
      THEN EntryOf(inv.calls[1].Value) ELSE Absent

\* the calls so far are the store call, then the resolver call made once the
\* store applied the mutation, and the response follows both
C11_Order ==
    /\ Len(inv.calls) <= 2
    /\ Len(inv.calls) >= 1 => inv.calls[1].op \in StoreOps
    /\ Len(inv.calls) = 2 =>
         inv.calls[2].op = "getCallerIdentity" /\ C11_Applied
    /\ inv.pc = "store" <=> (Len(inv.calls) = 1 /\ inv.result = NoResult)
    /\ inv.pc = "sts" <=> (Len(inv.calls) = 2 /\ inv.result = NoResult)
    /\ inv.result.status = "ok" => (inv.pc = "done" /\ Len(inv.calls) = 2)

\* the value a put carries for password was derived, in an allow-listed region
C11_DerivedFirst ==
    \A i \in 1..Len(inv.calls) :
      (inv.calls[i].op = "putParameter" /\ inv.ParameterType = "password")
      => /\ region \in SMTP_REGIONS
         /\ inv.calls[i].Value = calculateKey(inv.Key).value

\* each step moves the invocation one stage on: delivery, store, identity, done
C11_Step ==
    /\ inv'.pc = "store" => inv.pc \in { "none", "done" }
    /\ inv'.pc = "sts" => inv.pc = "store"
    /\ (inv'.result.status = "ok" /\ inv.result.status # "ok") => inv.pc = "sts"

C12_Deterministic ==
    region \in SMTP_REGIONS =>
      \A key \in Keys : \A x, y \in derived[key] : x.out.ok /\ x.out = y.out

C12_Witness ==
    /\ region \in SMTP_REGIONS
    /\ \E key \in Keys : \E x, y \in derived[key] : x.at # y.at
    /\ \A key \in Keys : derived[key] # {}

\* HMAC-SHA256(key, message), uninterpreted
H(key, message) == <<"hmac(">> \o key \o <<",">> \o message \o <<")">>

\* C13: in an allow-listed region the derived password is
\* base64(0x04 ++ H(H(H(H(H("AWS4"+secretKey, "11111111"), region), "ses"),
\* "aws4_request"), "SendRawEmail")): five rounds in that order, each keyed by
\* the digest of the round before, after the single version byte.
C13_SignatureChain ==
    region \in SMTP_REGIONS =>
      \A key \in Keys : \A x \in derived[key] :
        /\ x.out.ok
        /\ x.out.value =
             <<"b64(", "0x04">>
             \o H(H(H(H(H(<<"AWS4">> \o key, <<"11111111">>), <<region>>),
                      <<"ses">>), <<"aws4_request">>), <<"SendRawEmail">>)
             \o <<")">>
        /\ Cardinality({ i \in 1..Len(x.out.value) : x.out.value[i] = "hmac(" }) = 5

C13_Witness ==
    /\ region = "eu-west-1"
    /\ \E x \in derived[<<"k2">>] : x.out.ok

\* the calls of the invocation to the store, and to the identity resolver
C14_StoreCalls == { i \in 1..Len(inv.calls) : inv.calls[i].op \in StoreOps }
C14_IdentityCalls == { i \in 1..Len(inv.calls) : inv.calls[i].op = "getCallerIdentity" }

C14_Once ==
    /\ Cardinality(C14_StoreCalls) <= 1
    /\ Cardinality(C14_IdentityCalls) <= 1
    /\ inv.result.error \in { StoreFault, ParameterNotFound, ParameterAlreadyExists }
         => (inv.pc = "done" /\ C14_IdentityCalls = {})
    /\ inv.result.error = IdentityFault
         => (inv.pc = "done" /\ Cardinality(C14_IdentityCalls) = 1)

\* a step that ends the invocation in failure ends it with the error of the
\* collaborator that was answering, and makes no further call
C14_Propagated ==
    (inv.pc \in { "store", "sts" } /\ inv'.result.status = "error")
    => /\ inv'.pc = "done"
       /\ inv'.calls = inv.calls
       /\ inv.pc = "store" =>
            inv'.result.error \in ({ StoreFault, storeError(inv.calls[1]) } \ { "" })
       /\ inv.pc = "sts" => inv'.result.error = IdentityFault

\* C14: an invocation calls the store at most once and the identity resolver
\* at most once; when the store call fails the resolver is not called and the
\* handler fails with the store's error, and when the resolver fails the
\* handler fails with the resolver's error.
C14_NoRetry ==
    /\ []C14_Once
    /\ [][C14_Propagated]_vars

C14_Witness ==
    /\ inv.pc = "done" /\ inv.result = Failure(ParameterNotFound)
    /\ Len(inv.calls) = 1
    /\ SameParameter /\ prev.result = Failure(IdentityFault)

C15_Put == { "Create", "Update" }

\* a Create or Update has succeeded
C15_Case ==
    inv.pc = "done" /\ inv.RequestType \in C15_Put /\ inv.result.status = "ok"

\* C15: delivered in the same state with the same properties, a Create and an
\* Update start the same invocation (the same store request, or the same
\* failure); after a successful Create or Update the parameter's key holds the
\* value of that event's properties, whatever it held before, and a Create and
\* an Update with the same properties that succeed one after the other leave
\* the same entry and return the same identifier.
C15_CreateEqualsUpdate ==
    /\ \A k \in Kinds, key \in Keys :
         [ started("Create", k, key) EXCEPT !.RequestType = "Update" ]
           = started("Update", k, key)
    /\ C15_Case =>
         store[parameterName(inv.ParameterType)].Value =
           IF inv.ParameterType = "password"
           THEN calculateKey(inv.Key).value ELSE inv.Key
    /\ ( /\ C15_Case /\ SameParameter /\ prev.RequestType \in C15_Put
         /\ prev.Key = inv.Key /\ prev.result.status = "ok" )
       => /\ store[parameterName(inv.ParameterType)] = prev.entry
          /\ inv.result = prev.result

C15_Witness ==
    /\ C15_Case /\ inv.RequestType = "Update" /\ inv.ParameterType = "password"
    /\ SameParameter /\ prev.RequestType = "Create" /\ prev.result.status = "ok"
    /\ prev.Key # inv.Key
    /\ prev.entry.present /\ prev.entry # store[parameterName("password")]

\* the store key of the invocation's parameter kind
C16_Own == prefix \o <<"/", inv.ParameterType>>

\* every store call of the invocation names its own key
C16_Addressed ==
    \A i \in 1..Len(inv.calls) :
      inv.calls[i].op \in StoreOps => inv.calls[i].Name = C16_Own

\* C16: an invocation for parameter kind k addresses only the store key
\* prefix/k, and no step of it, successful or failing, changes any other key of
\* the store.
C16_Frame ==
    /\ []C16_Addressed
    /\ [][\A n \in Names : n # C16_Own => store'[n] = store[n]]_vars

C16_Witness ==
    /\ inv.pc = "done" /\ inv.result.status = "ok"
    /\ inv.RequestType = "Delete" /\ inv.ParameterType = "username"
    /\ prev.entry.present
    /\ ~store[parameterName("username")].present
    /\ store[parameterName("password")].present

\* the store and the result after one invocation ran alone, from delivery to
\* its end, on the store st
C17_Alone(st, i) ==
    IF i.pc = "done" THEN [store |-> st, result |-> i.result]
    ELSE LET req == i.calls[1]
             e == storeErrorIn(st, req)
         IN  IF e # ""
             THEN [store |-> st, result |-> Failure(e)]
             ELSE [ store |-> storeApplyIn(st, req),
                    result |-> Success(computeArn(i.ParameterType, account)) ]

\* the event delivered for kind k, as the handler starts on it
C17_Event(k) == started(invs[k].RequestType, k, invs[k].Key)

\* the two events run one after the other, first then second
C17_Sequential(first, second) ==
    LET a == C17_Alone(store0, C17_Event(first))
        b == C17_Alone(a.store, C17_Event(second))
    IN  [ store |-> b.store,
          results |-> [k \in Kinds |-> IF k = first THEN a.result ELSE b.result] ]

C17_BothDone == \A k \in Kinds : invs[k].pc = "done"

C17_Outcome == [ store |-> store, results |-> [k \in Kinds |-> invs[k].result] ]

\* C17: however the steps of the invocation for username and of the one for
\* password interleave, once both have ended the store and the two results are
\* those of running username then password, and of password then username.
C17_Interleaving ==
    C17_BothDone =>
      /\ C17_Outcome = C17_Sequential("username", "password")
      /\ C17_Outcome = C17_Sequential("password", "username")

C17_Witness ==
    /\ C17_BothDone
    /\ invs["username"].RequestType = "Delete" /\ invs["username"].result.status = "ok"
    /\ invs["password"].RequestType = "Update" /\ invs["password"].result.status = "ok"
    /\ \A n \in Names : store[n] # store0[n]

\* "arn:aws:ssm:" + region + ":" + account + ":parameter"
C18_Base == <<"arn:aws:ssm:", region, ":", account, ":parameter">>

C18_Slashed(name) == name # <<>> /\ Head(name) = "/"

\* what follows the base in an identifier
C18_Rest(e) == SubSeq(e.arn, Len(C18_Base) + 1, Len(e.arn))

\* the identifier is the base, then the name, and a separator was inserted
\* if and only if the name does not start with "/"
C18_Shape(e) ==
    /\ SubSeq(e.arn, 1, Len(C18_Base)) = C18_Base
    /\ C18_Rest(e) = (IF C18_Slashed(e.name) THEN <<>> ELSE <<"/">>) \o e.name

\* exactly one "/" stands between the base and the first path segment
C18_OneSeparator(e) ==
    /\ Len(C18_Rest(e)) >= 2
    /\ C18_Rest(e)[1] = "/"
    /\ C18_Rest(e)[2] # "/"

\* the entries of one parameter kind computed under p and under "/" + p
C18_Pairs ==
    { pair \in arnLog \X arnLog :
        /\ pair[1].parameter = pair[2].parameter
        /\ ~C18_Slashed(pair[1].prefix)
        /\ pair[2].prefix = <<"/">> \o pair[1].prefix }

\* C18 as stated: for every prefix and parameter kind the identifier is the
\* base followed by the name with exactly one "/" between them, the separator
\* inserted iff the name does not start with "/", and a prefix with and without
\* a leading slash yield the same identifier.
C18_ArnFormat ==
    /\ \A e \in arnLog : C18_Shape(e) /\ C18_OneSeparator(e)
    /\ \A pair \in C18_Pairs : pair[1].arn = pair[2].arn

\* C18 amended: the shape holds for every prefix; exactly one "/" follows the
\* base unless the prefix itself starts with a bare "/" segment, and a
\* non-empty prefix with and without a leading slash yield the same identifier.
C18_ArnFormatAmended ==
    /\ \A e \in arnLog :
         /\ C18_Shape(e)
         /\ (e.prefix = <<>> \/ e.prefix[1] # "/" \/ (Len(e.prefix) >= 2 /\ e.prefix[2] # "/"))
              => C18_OneSeparator(e)
    /\ \A pair \in C18_Pairs : pair[1].prefix # <<>> => pair[1].arn = pair[2].arn

C18_Witness ==
    \E pair \in C18_Pairs :
        /\ pair[1].prefix = <<"gts">>
        /\ pair[1].arn = pair[2].arn
        /\ \E e \in arnLog : e.prefix = <<>> /\ e.parameter = pair[1].parameter

====
